---- MODULE Spec2Model ----
(***************************************************************************)
(* Model of servers/latex-mcp/engine/latex_engine.py: the conversion and   *)
(* compilation pipeline of main(), the fallback converter                  *)
(* basic_md_to_latex() and write_error().                                  *)
(*                                                                         *)
(* Text is a sequence of tokens.  A token is an indivisible piece of text  *)
(* (a marker such as \begin{document}, a brace, a newline, a character of  *)
(* a markdown line); Python's str.find / `in` / slicing / split / strip    *)
(* are computed on these sequences the way Python computes them on         *)
(* characters.                                                             *)
(***************************************************************************)
EXTENDS Integers, Sequences, FiniteSets, TLC

\* ------------------------------------------------------------------ bounds
\* Number of building blocks a generated markup document is made of.
MaxPieces == 3
\* Length of a markdown source line.
MaxLineLen == 5
\* Length of a frontmatter author list.
MaxAuthors == 3
\* Number of page markers a compiled artifact holds at most.
MaxMarkers == 2
\* Engine processes running side by side, and the distinct random suffixes
\* mkdtemp can draw for one prefix.
MaxEngines == 3
MaxSuffixes == 2

\* -------------------------------------------------------- program constants
\* range(2): the fixed number of compiler passes.
NumPasses == 2

\* ------------------------------------------------------------ text helpers
Min(S) == CHOOSE x \in S : \A y \in S : x <= y

\* s[i:], s[:i] with a 0-based Python index 0 <= i <= len(s).
SliceFrom(s, i) == SubSeq(s, i + 1, Len(s))
SliceTo(s, i) == SubSeq(s, 1, i)

\* sub occurs in s starting at the 1-based position i.
OccursAt(sub, s, i) ==
    /\ i + Len(sub) - 1 <= Len(s)
    /\ \A k \in 1..Len(sub) : s[i + k - 1] = sub[k]

\* str.find: the 0-based index of the first occurrence of sub in s, or -1.
Find(sub, s) ==
    LET hits == {i \in 1..(Len(s) + 1) : OccursAt(sub, s, i)}
    IN  IF hits = {} THEN -1 ELSE Min(hits) - 1

\* `sub in s`.
Contains(sub, s) == \E i \in 1..(Len(s) + 1) : OccursAt(sub, s, i)

\* Number of positions of s at which sub occurs.
CountOcc(sub, s) == Cardinality({i \in 1..(Len(s) + 1) : OccursAt(sub, s, i)})

\* str.startswith.
StartsWith(s, prefix) == OccursAt(prefix, s, 1)

RECURSIVE Concat(_)
\* "".join(parts).
Concat(parts) ==
    IF parts = <<>> THEN <<>> ELSE Head(parts) \o Concat(Tail(parts))

RECURSIVE Join(_, _)
\* sep.join(parts).
Join(sep, parts) ==
    IF parts = <<>> THEN <<>>
    ELSE IF Len(parts) = 1 THEN parts[1]
    ELSE parts[1] \o sep \o Join(sep, Tail(parts))

RECURSIVE Split(_, _)
\* s.split(c) for a one-token separator c: always at least one part.
Split(s, c) ==
    LET idx == Find(<<c>>, s)
    IN  IF idx < 0 THEN <<s>>
        ELSE <<SliceTo(s, idx)>> \o Split(SliceFrom(s, idx + 1), c)

\* Whitespace tokens of a markdown line.
IsSpace(t) == t = " "

RECURSIVE LStrip(_)
LStrip(s) == IF s # <<>> /\ IsSpace(Head(s)) THEN LStrip(Tail(s)) ELSE s

RECURSIVE RStrip(_)
RStrip(s) ==
    IF s # <<>> /\ IsSpace(s[Len(s)]) THEN RStrip(SubSeq(s, 1, Len(s) - 1)) ELSE s

\* str.strip().
Strip(s) == RStrip(LStrip(s))

\* len(s.split()): the number of maximal runs of non-whitespace tokens.
WordCount(s) ==
    Cardinality({i \in 1..Len(s) :
        /\ ~IsSpace(s[i])
        /\ (i = 1 \/ IsSpace(s[i - 1]))})

\* --------------------------------------------------------- optional values
\* A Python value that may be None: data.get("latex_preamble") and the like.
None == [some |-> FALSE]
Some(v) == [some |-> TRUE, val |-> v]
\* Python truthiness of an optional text: neither None nor "".
Truthy(o) == o.some /\ o.val # <<>>

\* ------------------------------------------------------------------ markup
BeginDocument == <<"\\begin{document}">>
EndDocument == <<"\\end{document}">>
NL == <<"\n">>
TitleOpen == <<"\\title{">>
\* f"\\title{{{title}}}"
TitleDecl(title) == TitleOpen \o title \o <<"}">>
\* f"\\usepackage{{{pkg}}}"
UsePackage(pkg) == <<"\\usepackage{", pkg, "}">>
\* for pkg in ["microtype", "hyperref", "bookmark"]
CommonPackages == <<"microtype", "hyperref", "bookmark">>

\* ------------------------------------------------------ Metadata Injector
\* main, lines 87-93: splice the custom preamble before \begin{document}.
InjectPreamble(doc, preamble) ==
    IF Truthy(preamble)
    THEN LET idx == Find(BeginDocument, doc)
         IN  IF idx >= 0
             THEN SliceTo(doc, idx) \o preamble.val \o NL \o SliceFrom(doc, idx)
             ELSE doc
    ELSE doc

\* main, lines 95-104: splice \title{...} unless "\title{" occurs already.
InjectTitle(doc, fm) ==
    IF Truthy(fm.title)
    THEN IF ~Contains(TitleOpen, doc)
         THEN LET idx == Find(BeginDocument, doc)
              IN  IF idx >= 0
                  THEN SliceTo(doc, idx) \o TitleDecl(fm.title.val) \o NL
                           \o SliceFrom(doc, idx)
                  ELSE doc
         ELSE doc
    ELSE doc

\* Mutant of EnsurePackage: no `if idx >= 0` test; with the marker absent the
\* declaration is put at the front of the document.
EnsurePackage_NoMarkerTest(doc, pkg) ==
    IF ~Contains(UsePackage(pkg), doc)
    THEN LET idx == Find(BeginDocument, doc)
             at == IF idx >= 0 THEN idx ELSE 0
         IN  SliceTo(doc, at) \o UsePackage(pkg) \o NL \o SliceFrom(doc, at)
    ELSE doc

\* main, lines 108-115: one iteration of the package loop.
EnsurePackage(doc, pkg) ==
    IF ~Contains(UsePackage(pkg), doc)
    THEN LET idx == Find(BeginDocument, doc)
         IN  IF idx >= 0
             THEN SliceTo(doc, idx) \o UsePackage(pkg) \o NL \o SliceFrom(doc, idx)
             ELSE doc
    ELSE doc

RECURSIVE EnsurePackages(_, _)
\* main, lines 106-115: the package loop over pkgs, in order.
EnsurePackages(doc, pkgs) ==
    IF pkgs = <<>> THEN doc
    ELSE EnsurePackages(EnsurePackage(doc, Head(pkgs)), Tail(pkgs))

\* Mutant of MetadataInject: the title is spliced before the custom preamble.
MetadataInject_TitleFirst(doc, preamble, fm) ==
    EnsurePackages(InjectPreamble(InjectTitle(doc, fm), preamble), CommonPackages)

\* main, lines 87-115: the whole post-processing of the generated markup.
MetadataInject(doc, preamble, fm) ==
    EnsurePackages(InjectTitle(InjectPreamble(doc, preamble), fm), CommonPackages)

\* ------------------------------------------------------ Markup Normalizer
\* basic_md_to_latex, lines 195-199: the author line.  An author is absent,
\* a string, or a list of strings.
NoAuthor == [kind |-> "none", str |-> <<>>, list |-> <<>>]
AuthorStr(s) == [kind |-> "str", str |-> s, list |-> <<>>]
AuthorList(l) == [kind |-> "list", str |-> <<>>, list |-> l]
\* ' \\\\and ' in the source: a space, two backslashes, "and", a space.
AndSeparator == <<" ", "\\\\and", " ">>
AuthorTruthy(a) ==
    \/ a.kind = "str" /\ a.str # <<>>
    \/ a.kind = "list" /\ a.list # <<>>
\* Mutant of AuthorLine: the separator is written after every author of a
\* list instead of between them.
AuthorLine_TrailingSeparator(a) ==
    IF a.kind = "list"
    THEN <<"\\author{">>
             \o Concat([i \in 1..Len(a.list) |-> a.list[i] \o AndSeparator])
             \o <<"}">>
    ELSE <<"\\author{">> \o a.str \o <<"}">>

AuthorLine(a) ==
    IF a.kind = "list"
    THEN <<"\\author{">> \o Join(AndSeparator, a.list) \o <<"}">>
    ELSE <<"\\author{">> \o a.str \o <<"}">>

\* Mutant of BodyLine: the first rule tests for "#" without the space, so a
\* line of any number of '#' becomes a section.
BodyLine_AnyHashes(line) ==
    LET stripped == Strip(line)
    IN  IF StartsWith(stripped, <<"#">>)
        THEN <<(<<"\\section{">> \o SliceFrom(stripped, 2) \o <<"}">>)>>
        ELSE IF StartsWith(stripped, <<"-", "-", "-">>)
        THEN <<>>
        ELSE IF Contains(<<":">>, stripped)
                /\ WordCount(Split(stripped, ":")[1]) <= 2
        THEN <<>>
        ELSE IF stripped # <<>>
        THEN <<stripped>>
        ELSE <<>>

\* basic_md_to_latex, lines 204-216: the lines one source line contributes.
BodyLine(line) ==
    LET stripped == Strip(line)
    IN  IF StartsWith(stripped, <<"#", " ">>)
        THEN <<(<<"\\section{">> \o SliceFrom(stripped, 2) \o <<"}">>)>>
        ELSE IF StartsWith(stripped, <<"#", "#", " ">>)
        THEN <<(<<"\\subsection{">> \o SliceFrom(stripped, 3) \o <<"}">>)>>
        ELSE IF StartsWith(stripped, <<"#", "#", "#", " ">>)
        THEN <<(<<"\\subsubsection{">> \o SliceFrom(stripped, 4) \o <<"}">>)>>
        ELSE IF StartsWith(stripped, <<"-", "-", "-">>)
        THEN <<>>
        ELSE IF Contains(<<":">>, stripped)
                /\ WordCount(Split(stripped, ":")[1]) <= 2
        THEN <<>>
        ELSE IF stripped # <<>>
        THEN <<stripped>>
        ELSE <<>>

RECURSIVE BodyLines(_)
\* basic_md_to_latex, lines 203-216: the loop over source.split("\n").
BodyLines(srcLines) ==
    IF srcLines = <<>> THEN <<>>
    ELSE BodyLine(Head(srcLines)) \o BodyLines(Tail(srcLines))

\* basic_md_to_latex, lines 180-218: the list `lines`.
NormalizerLines(src, fm, preamble) ==
    <<(<<"\\documentclass{article}">>),
      (<<"\\usepackage[utf8]{inputenc}">>),
      UsePackage("amsmath"),
      UsePackage("hyperref")>>
    \o (IF Truthy(preamble) THEN <<preamble.val>> ELSE <<>>)
    \o <<BeginDocument>>
    \o (IF Truthy(fm.title) THEN <<TitleDecl(fm.title.val)>> ELSE <<>>)
    \o (IF AuthorTruthy(fm.author) THEN <<AuthorLine(fm.author)>> ELSE <<>>)
    \o (IF Truthy(fm.title) THEN <<(<<"\\maketitle">>)>> ELSE <<>>)
    \o BodyLines(Split(src, "\n"))
    \o <<EndDocument>>

\* basic_md_to_latex, lines 178-219.
basic_md_to_latex(src, fm, preamble) == Join(NL, NormalizerLines(src, fm, preamble))

\* --------------------------------------------------------------- messages
\* The warning texts main appends (the fixed part of each f-string).
WarnPandocMissing == "pypandoc not installed; using basic conversion"
WarnPandocError == "pypandoc conversion warning"
WarnPdflatexExit == "pdflatex warning"
WarnNotProduced == "PDF file was not produced"
WarnToolMissing == "pdflatex not found; returning LaTeX source only"
WarnTimeout == "pdflatex compilation timed out (60s)"

\* Mutant of write_error: the details key is set without the `if details` test.
write_error_AlwaysDetails(code, message, details) ==
    [error |-> [code |-> code, message |-> message, details |-> details]]

\* write_error, lines 222-226: the JSON document it dumps.
write_error(code, message, details) ==
    IF Truthy(details)
    THEN [error |-> [code |-> code, message |-> message, details |-> details.val]]
    ELSE [error |-> [code |-> code, message |-> message]]

\* base64.b64encode(...).decode("ascii"): an injective encoding of the bytes.
B64Encode(content) == [encoding |-> "base64", bytes |-> content]

\* main, lines 145-147: the page estimate.  "/Type /Pages" is "/Type /Page"
\* followed by "s", so the first count includes the second.
PageCount(content) ==
    LET n == CountOcc(<<"/Type /Page">>, content)
                 - CountOcc(<<"/Type /Page", "s">>, content)
    IN  IF n <= 0 THEN 1 ELSE n

\* main, lines 157-170: the result object, its optional keys included.
BuildResultDoc(ls, w, pdf, pages) ==
    LET keys == {"latex_source", "warnings", "citations"}
                    \cup (IF pdf.some THEN {"pdf_base64"} ELSE {})
                    \cup (IF pages.some THEN {"page_count"} ELSE {})
    IN  [k \in keys |->
            CASE k = "latex_source" -> ls
              [] k = "warnings" -> w
              [] k = "citations" -> [total |-> 0, resolved |-> 0, unresolved |-> <<>>]
              [] k = "pdf_base64" -> pdf.val
              [] k = "page_count" -> pages.val]

\* ------------------------------------------------------------------- state
VARIABLES
    stdin_kind,      \* what sys.stdin holds: "object", "nonobject", "malformed"
    source,          \* data.get("source", "")
    frontmatter,     \* data.get("frontmatter", {}): [title, author]
    bibliography,    \* data.get("bibliography")
    latex_preamble,  \* data.get("latex_preamble")
    tool_present,    \* whether the pdflatex binary can be located
    pc,              \* position of main
    tmpdir,          \* the workspace: "none", "exists", "removed"
    files,           \* the files of the workspace: name -> content
    bib_path,        \* None or the bibliography file's name
    extra_args,      \* the arguments handed to pypandoc.convert_file, or None
    conversion,      \* "none", "rich", "not_installed", "error"
    warnings,        \* the list `warnings`
    latex_source,    \* the markup document being post-processed
    pdf_base64,      \* None or the encoded artifact
    page_count,      \* None or the page estimate
    pass_log,        \* outcome of every subprocess.run of the loop, in order
    pdf_found,       \* os.path.exists(pdf_path): "unchecked", "yes", "no"
    stdout,          \* the JSON documents written to sys.stdout, in order
    exc,             \* the exception travelling to the finally clause
    raised_at,       \* the step that raised it
    escaped,         \* the exception that left main uncaught, or "none"
    engines,         \* engine processes running side by side: their main's state
    tempdir,         \* tempfile.gettempdir(): directory name -> its files
    output_dir,      \* slides engine: the output_dir argument, or None
    outputs,         \* slides engine: the files of output_dir, name -> content
    result           \* slides engine: what compile_beamer_to_pdf returns, or None

request == <<stdin_kind, source, frontmatter, bibliography, latex_preamble, tool_present>>
locals == <<bib_path, extra_args, conversion, warnings, latex_source,
            pdf_base64, page_count, pass_log, pdf_found>>
concurrent == <<engines, tempdir>>
slides == <<output_dir, outputs, result>>
vars == <<request, concurrent, slides, pc, tmpdir, files, locals, stdout, exc, raised_at,
          escaped>>

\* ------------------------------------------------------------------ inputs
\* Markdown sources, as tokens: "# a\n\nb" and the empty source.
SampleSources == { <<"#", " ", "a", "\n", "\n", "b">>, <<>> }
SampleTitles == { None, Some(<<"T">>) }
SampleAuthors == { NoAuthor, AuthorList(<< <<"A">>, <<"B">> >>) }
SamplePreambles == { None, Some(<<"P">>) }
\* No bibliography, an empty one (falsy, like None) and a non-empty one.
SampleBibliographies == { None, Some(<<>>), Some(<<"@article">>) }

\* What the rich converter may write to output.tex: a standalone document,
\* one that already declares a title and a package, and one without the
\* document-start marker.
RichDocs ==
    { <<"\\documentclass{article}">> \o NL \o BeginDocument \o NL \o <<"x">>
          \o NL \o EndDocument,
      <<"\\documentclass{article}">> \o NL \o UsePackage("hyperref") \o NL
          \o TitleDecl(<<"T">>) \o NL \o BeginDocument \o NL \o EndDocument,
      <<"x">> }

RECURSIVE SeqsUpTo(_, _)
\* All sequences over S of length at most n.
SeqsUpTo(S, n) ==
    IF n = 0 THEN { <<>> }
    ELSE LET shorter == SeqsUpTo(S, n - 1)
         IN  shorter \cup { Append(q, x) : q \in shorter, x \in S }

\* What pdflatex may write to output.pdf: page-object and page-collection
\* markers ("/Type /Page" followed by "s" is "/Type /Pages").
PdfContents == SeqsUpTo({"/Type /Page", "s"}, MaxMarkers)

\* State of main before its first statement, for every field of the request.
InitLocals ==
    /\ pc = "read_stdin"
    /\ tmpdir = "none"
    /\ files = [n \in {} |-> <<>>]
    /\ bib_path = None
    /\ extra_args = None
    /\ conversion = "none"
    /\ warnings = <<>>
    /\ latex_source = <<>>
    /\ pdf_base64 = None
    /\ page_count = None
    /\ pass_log = <<>>
    /\ pdf_found = "unchecked"
    /\ stdout = <<>>
    /\ exc = "none"
    /\ raised_at = "none"
    /\ escaped = "none"

\* One engine process alone: nothing runs beside it.
NoEngines ==
    /\ engines = <<>>
    /\ tempdir = <<>>

\* The slides engine is not running.
NoSlides ==
    /\ output_dir = None
    /\ outputs = <<>>
    /\ result = None

Init ==
    /\ NoEngines
    /\ NoSlides
    /\ stdin_kind \in {"object", "nonobject", "malformed"}
    /\ tool_present \in BOOLEAN
    /\ IF stdin_kind = "object"
       THEN /\ source \in SampleSources
            /\ frontmatter \in [title : SampleTitles, author : SampleAuthors]
            /\ bibliography \in SampleBibliographies
            /\ latex_preamble \in SamplePreambles
       ELSE /\ source = <<>>
            /\ frontmatter = [title |-> None, author |-> NoAuthor]
            /\ bibliography = None
            /\ latex_preamble = None
    /\ InitLocals

\* ----------------------------------------------------------------- helpers
\* The file `name` of the workspace now holds `content`.
WithFile(fs, name, content) ==
    [n \in (DOMAIN fs) \cup {name} |-> IF n = name THEN content ELSE fs[n]]

\* An exception raised inside the try block of lines 44-172: control moves to
\* the finally clause with the exception pending.
Raise(step, e) ==
    /\ pc' = "finally"
    /\ exc' = e
    /\ raised_at' = step

\* ----------------------------------------------------------------- actions
\* main, lines 25-37: decode the request.
ReadInput ==
    /\ pc = "read_stdin"
    /\ CASE stdin_kind = "malformed" ->
              \* json.JSONDecodeError: write_error, then sys.exit(1)
              /\ stdout' = Append(stdout,
                     write_error("json-parse-failed", "Invalid JSON input", None))
              /\ pc' = "done"
              /\ UNCHANGED <<escaped, raised_at>>
         [] stdin_kind = "nonobject" ->
              \* data.get on a list, string or number: AttributeError, line 31
              /\ escaped' = "AttributeError"
              /\ raised_at' = "read_stdin"
              /\ pc' = "done"
              /\ UNCHANGED stdout
         [] stdin_kind = "object" ->
              /\ pc' = "mkdtemp"
              /\ UNCHANGED <<stdout, escaped, raised_at>>
    /\ UNCHANGED <<request, concurrent, slides, tmpdir, files, locals, exc>>

\* main, line 42: tempfile.mkdtemp, outside the try block.
CreateWorkspace ==
    /\ pc = "mkdtemp"
    /\ \/ /\ tmpdir' = "exists"
          /\ pc' = "write_md"
          /\ UNCHANGED <<escaped, raised_at>>
       \/ /\ escaped' = "OSError"
          /\ raised_at' = "mkdtemp"
          /\ pc' = "done"
          /\ UNCHANGED tmpdir
    /\ UNCHANGED <<request, concurrent, slides, files, locals, stdout, exc>>

\* main, lines 45-51: write input.md.
WriteSource ==
    /\ pc = "write_md"
    /\ \/ /\ files' = WithFile(files, "input.md", source)
          /\ pc' = "write_bib"
          /\ UNCHANGED <<exc, raised_at>>
       \/ /\ Raise("write_md", "OSError")
          /\ UNCHANGED files
    /\ UNCHANGED <<request, concurrent, slides, tmpdir, locals, stdout, escaped>>

\* main, lines 53-58: write references.bib when a bibliography is given.
WriteBibliography ==
    /\ pc = "write_bib"
    /\ IF Truthy(bibliography)
       THEN \/ /\ bib_path' = Some("references.bib")
               /\ files' = WithFile(files, "references.bib", bibliography.val)
               /\ pc' = "convert"
               /\ UNCHANGED <<exc, raised_at>>
            \/ /\ bib_path' = Some("references.bib")
               /\ Raise("write_bib", "OSError")
               /\ UNCHANGED files
       ELSE /\ pc' = "convert"
            /\ UNCHANGED <<bib_path, files, exc, raised_at>>
    /\ UNCHANGED <<request, concurrent, slides, tmpdir, extra_args, conversion, warnings, latex_source,
                   pdf_base64, page_count, pass_log, pdf_found, stdout, escaped>>

\* Mutant of PandocArgs: --citeproc is passed whether or not there is a
\* bibliography file.
PandocArgs_AlwaysCiteproc(bp) ==
    <<"--standalone">>
        \o (IF bp.some THEN <<"--bibliography", bp.val>> ELSE <<>>)
        \o <<"--citeproc">>

\* main, lines 64-67: the arguments of the rich converter.
PandocArgs(bp) ==
    <<"--standalone">>
        \o (IF bp.some THEN <<"--bibliography", bp.val, "--citeproc">> ELSE <<>>)

\* main, lines 61-71: pypandoc is importable and convert_file succeeds,
\* writing some document to output.tex.
ConvertRich ==
    /\ pc = "convert"
    /\ \E doc \in RichDocs :
          files' = WithFile(files, "output.tex", doc)
    /\ extra_args' = Some(PandocArgs(bib_path))
    /\ conversion' = "rich"
    /\ pc' = "post_process"
    /\ UNCHANGED <<request, concurrent, slides, tmpdir, bib_path, warnings, latex_source, pdf_base64,
                   page_count, pass_log, pdf_found, stdout, exc, raised_at, escaped>>

\* main, lines 72-81: the import fails (ImportError) or convert_file raises
\* (Exception); either way one warning, then the Normalizer's output is
\* written to output.tex.
ConvertFallback ==
    /\ pc = "convert"
    /\ \E reason \in {"not_installed", "error"} :
          /\ conversion' = reason
          /\ warnings' = Append(warnings,
                IF reason = "not_installed" THEN WarnPandocMissing ELSE WarnPandocError)
          /\ extra_args' = IF reason = "error" THEN Some(PandocArgs(bib_path)) ELSE None
    /\ \/ /\ files' = WithFile(files, "output.tex",
                          basic_md_to_latex(source, frontmatter, latex_preamble))
          /\ pc' = "post_process"
          /\ UNCHANGED <<exc, raised_at>>
       \/ /\ Raise("write_fallback_tex", "OSError")
          /\ UNCHANGED files
    /\ UNCHANGED <<request, concurrent, slides, tmpdir, bib_path, latex_source, pdf_base64,
                   page_count, pass_log, pdf_found, stdout, escaped>>

\* main, lines 83-115: read output.tex back and run the Metadata Injector.
PostProcess ==
    /\ pc = "post_process"
    /\ \/ /\ latex_source' = MetadataInject(files["output.tex"], latex_preamble, frontmatter)
          /\ pc' = "write_tex"
          /\ UNCHANGED <<exc, raised_at>>
       \/ /\ Raise("read_tex", "OSError")
          /\ UNCHANGED latex_source
    /\ UNCHANGED <<request, concurrent, slides, tmpdir, files, bib_path, extra_args, conversion, warnings,
                   pdf_base64, page_count, pass_log, pdf_found, stdout, escaped>>

\* Mutant of WriteTex: the post-processed document is not written back, the
\* compiler is handed the converter's output.
WriteTex_NotWrittenBack ==
    /\ pc = "write_tex"
    /\ pc' = "compile"
    /\ UNCHANGED <<request, concurrent, slides, tmpdir, files, locals, stdout, exc, raised_at,
                   escaped>>

\* main, lines 117-123: write the post-processed document to output.tex.
WriteTex ==
    /\ pc = "write_tex"
    /\ \/ /\ files' = WithFile(files, "output.tex", latex_source)
          /\ pc' = "compile"
          /\ UNCHANGED <<exc, raised_at>>
       \/ /\ Raise("write_tex", "OSError")
          /\ UNCHANGED files
    /\ UNCHANGED <<request, concurrent, slides, tmpdir, locals, stdout, escaped>>

\* The loop of lines 126-135 has another iteration to run.
InLoop == pc = "compile" /\ Len(pass_log) < NumPasses

\* Mutant of PassNotFound: no `except FileNotFoundError` clause, so the
\* missing binary is an exception like any other.
PassNotFound_Unhandled ==
    /\ InLoop
    /\ ~tool_present
    /\ pass_log' = Append(pass_log, "notfound")
    /\ Raise("compile", "FileNotFoundError")
    /\ UNCHANGED <<request, concurrent, slides, tmpdir, files, bib_path, extra_args, conversion, warnings,
                   latex_source, pdf_base64, page_count, pdf_found, stdout, escaped>>

\* main, lines 127-133 and 152-153: the binary cannot be located, so
\* subprocess.run raises FileNotFoundError before any process is started.
PassNotFound ==
    /\ InLoop
    /\ ~tool_present
    /\ pass_log' = Append(pass_log, "notfound")
    /\ warnings' = Append(warnings, WarnToolMissing)
    /\ pc' = "build"
    /\ UNCHANGED <<request, concurrent, slides, tmpdir, files, bib_path, extra_args, conversion, latex_source,
                   pdf_base64, page_count, pdf_found, stdout, exc, raised_at, escaped>>

\* Mutant of PassReturns: a non-zero exit code ends the loop.
PassReturns_StopOnFailure ==
    /\ InLoop
    /\ tool_present
    /\ \E rc \in {0, 1} :
          /\ pass_log' = Append(pass_log, IF rc = 0 THEN "rc0" ELSE "rc1")
          /\ warnings' = IF rc # 0 THEN Append(warnings, WarnPdflatexExit) ELSE warnings
          /\ pc' = IF rc # 0 \/ Len(pass_log) + 1 = NumPasses
                   THEN "check_pdf" ELSE "compile"
    /\ \/ UNCHANGED files
       \/ \E content \in PdfContents : files' = WithFile(files, "output.pdf", content)
    /\ UNCHANGED <<request, concurrent, slides, tmpdir, bib_path, extra_args, conversion, latex_source,
                   pdf_base64, page_count, pdf_found, stdout, exc, raised_at, escaped>>

\* Mutant of PassReturns: the warning is recorded for the last pass only.
PassReturns_WarnLastOnly ==
    /\ InLoop
    /\ tool_present
    /\ \E rc \in {0, 1} :
          /\ pass_log' = Append(pass_log, IF rc = 0 THEN "rc0" ELSE "rc1")
          /\ warnings' = IF rc # 0 /\ Len(pass_log) + 1 = NumPasses
                         THEN Append(warnings, WarnPdflatexExit) ELSE warnings
    /\ \/ UNCHANGED files
       \/ \E content \in PdfContents : files' = WithFile(files, "output.pdf", content)
    /\ pc' = IF Len(pass_log) + 1 = NumPasses THEN "check_pdf" ELSE "compile"
    /\ UNCHANGED <<request, concurrent, slides, tmpdir, bib_path, extra_args, conversion, latex_source,
                   pdf_base64, page_count, pdf_found, stdout, exc, raised_at, escaped>>

\* Mutant of PassReturns: the compiler-exit warning is put at the head of the
\* list, as warnings.insert(0, ...) would.
PassReturns_WarnAtHead ==
    /\ InLoop
    /\ tool_present
    /\ \E rc \in {0, 1} :
          /\ pass_log' = Append(pass_log, IF rc = 0 THEN "rc0" ELSE "rc1")
          /\ warnings' = IF rc # 0 THEN <<WarnPdflatexExit>> \o warnings ELSE warnings
    /\ \/ UNCHANGED files
       \/ \E content \in PdfContents : files' = WithFile(files, "output.pdf", content)
    /\ pc' = IF Len(pass_log) + 1 = NumPasses THEN "check_pdf" ELSE "compile"
    /\ UNCHANGED <<request, concurrent, slides, tmpdir, bib_path, extra_args, conversion, latex_source,
                   pdf_base64, page_count, pdf_found, stdout, exc, raised_at, escaped>>

\* main, lines 126-135: a pass runs to completion with exit code rc; it may
\* (re)write output.pdf.  A non-zero exit code appends a warning.
PassReturns ==
    /\ InLoop
    /\ tool_present
    /\ \E rc \in {0, 1} :
          /\ pass_log' = Append(pass_log, IF rc = 0 THEN "rc0" ELSE "rc1")
          /\ warnings' = IF rc # 0 THEN Append(warnings, WarnPdflatexExit) ELSE warnings
    /\ \/ UNCHANGED files
       \/ \E content \in PdfContents : files' = WithFile(files, "output.pdf", content)
    /\ pc' = IF Len(pass_log) + 1 = NumPasses THEN "check_pdf" ELSE "compile"
    /\ UNCHANGED <<request, concurrent, slides, tmpdir, bib_path, extra_args, conversion, latex_source,
                   pdf_base64, page_count, pdf_found, stdout, exc, raised_at, escaped>>

\* Mutant of PassTimeout: the timeout is handled inside the loop body and
\* the code goes on to look for the artifact.
PassTimeout_ThenCheck ==
    /\ InLoop
    /\ tool_present
    /\ pass_log' = Append(pass_log, "timeout")
    /\ warnings' = Append(warnings, WarnTimeout)
    /\ pc' = "check_pdf"
    /\ UNCHANGED <<request, concurrent, slides, tmpdir, files, bib_path, extra_args, conversion, latex_source,
                   pdf_base64, page_count, pdf_found, stdout, exc, raised_at, escaped>>

\* main, lines 131 and 154-155: a pass exceeds timeout=60; subprocess.run
\* kills it and raises TimeoutExpired, which leaves the loop.
PassTimeout ==
    /\ InLoop
    /\ tool_present
    /\ pass_log' = Append(pass_log, "timeout")
    /\ warnings' = Append(warnings, WarnTimeout)
    /\ pc' = "build"
    /\ UNCHANGED <<request, concurrent, slides, tmpdir, files, bib_path, extra_args, conversion, latex_source,
                   pdf_base64, page_count, pdf_found, stdout, exc, raised_at, escaped>>

\* main, lines 127-133: subprocess.run raises anything else (PermissionError
\* on a binary that is not executable, UnicodeDecodeError while decoding the
\* captured output with text=True, ...): no handler of lines 152-155 matches.
PassRaises ==
    /\ InLoop
    /\ tool_present
    /\ pass_log' = Append(pass_log, "raise")
    /\ Raise("compile", "OSError")
    /\ UNCHANGED <<request, concurrent, slides, tmpdir, files, bib_path, extra_args, conversion, warnings,
                   latex_source, pdf_base64, page_count, pdf_found, stdout, escaped>>

\* Mutant of CheckPdf: the artifact is read only when every pass exited 0.
CheckPdf_ByExitCode ==
    /\ pc = "check_pdf"
    /\ IF "output.pdf" \in DOMAIN files /\ \A i \in 1..Len(pass_log) : pass_log[i] = "rc0"
       THEN /\ pdf_found' = "yes"
            /\ pdf_base64' = Some(B64Encode(files["output.pdf"]))
            /\ page_count' = Some(PageCount(files["output.pdf"]))
            /\ UNCHANGED warnings
       ELSE /\ pdf_found' = IF "output.pdf" \in DOMAIN files THEN "yes" ELSE "no"
            /\ warnings' = Append(warnings, WarnNotProduced)
            /\ UNCHANGED <<pdf_base64, page_count>>
    /\ pc' = "build"
    /\ UNCHANGED <<request, concurrent, slides, tmpdir, files, bib_path, extra_args, conversion, latex_source,
                   pass_log, stdout, exc, raised_at, escaped>>

\* Mutant of CheckPdf: no else branch, a missing artifact is not reported.
CheckPdf_Silent ==
    /\ pc = "check_pdf"
    /\ IF "output.pdf" \in DOMAIN files
       THEN /\ pdf_found' = "yes"
            /\ pdf_base64' = Some(B64Encode(files["output.pdf"]))
            /\ page_count' = Some(PageCount(files["output.pdf"]))
       ELSE /\ pdf_found' = "no"
            /\ UNCHANGED <<pdf_base64, page_count>>
    /\ pc' = "build"
    /\ UNCHANGED <<request, concurrent, slides, tmpdir, files, bib_path, extra_args, conversion, latex_source,
                   warnings, pass_log, stdout, exc, raised_at, escaped>>

\* main, lines 137-151: after the loop, look for output.pdf, read and encode
\* it and estimate the pages; the estimate's own failure is swallowed
\* (lines 148-149).  The file exists when it is opened, so a failure to read
\* it is not a FileNotFoundError.
CheckPdf ==
    /\ pc = "check_pdf"
    /\ IF "output.pdf" \in DOMAIN files
       THEN /\ pdf_found' = "yes"
            /\ \/ /\ pdf_base64' = Some(B64Encode(files["output.pdf"]))
                  /\ \/ page_count' = Some(PageCount(files["output.pdf"]))
                     \/ page_count' = None
                  /\ pc' = "build"
                  /\ UNCHANGED <<exc, raised_at>>
               \/ /\ Raise("read_pdf", "OSError")
                  /\ UNCHANGED <<pdf_base64, page_count>>
            /\ UNCHANGED warnings
       ELSE /\ pdf_found' = "no"
            /\ warnings' = Append(warnings, WarnNotProduced)
            /\ pc' = "build"
            /\ UNCHANGED <<pdf_base64, page_count, exc, raised_at>>
    /\ UNCHANGED <<request, concurrent, slides, tmpdir, files, bib_path, extra_args, conversion, latex_source,
                   pass_log, stdout, escaped>>

\* main, lines 157-172: build the result and dump it to stdout.
BuildResult ==
    /\ pc = "build"
    /\ stdout' = Append(stdout,
           BuildResultDoc(latex_source, warnings, pdf_base64, page_count))
    /\ pc' = "finally"
    /\ UNCHANGED <<request, concurrent, slides, tmpdir, files, locals, exc, raised_at, escaped>>

\* Mutant of Finally: rmtree is the last statement of the try block rather
\* than a finally clause, so it is skipped when an exception is pending.
Finally_OnlyOnSuccess ==
    /\ pc = "finally"
    /\ tmpdir' = IF exc = "none" THEN "removed" ELSE tmpdir
    /\ files' = IF exc = "none" THEN [n \in {} |-> <<>>] ELSE files
    /\ escaped' = exc
    /\ pc' = "done"
    /\ UNCHANGED <<request, concurrent, slides, locals, stdout, exc, raised_at>>

\* main, lines 174-175: the finally clause removes the workspace, then a
\* pending exception leaves main.  (rmtree is taken to remove the tree; with
\* ignore_errors=True it raises nothing.)
Finally ==
    /\ pc = "finally"
    /\ tmpdir' = "removed"
    /\ files' = [n \in {} |-> <<>>]
    /\ escaped' = exc
    /\ pc' = "done"
    /\ UNCHANGED <<request, concurrent, slides, locals, stdout, exc, raised_at>>

Next ==
    \/ ReadInput
    \/ CreateWorkspace
    \/ WriteSource
    \/ WriteBibliography
    \/ ConvertRich
    \/ ConvertFallback
    \/ PostProcess
    \/ WriteTex
    \/ PassNotFound
    \/ PassReturns
    \/ PassTimeout
    \/ PassRaises
    \/ CheckPdf
    \/ BuildResult
    \/ Finally

Spec == Init /\ [][Next]_vars

\* ----------------------------------------------------------------- typing
TypeOK ==
    /\ pc \in {"read_stdin", "mkdtemp", "write_md", "write_bib", "convert",
               "post_process", "write_tex", "compile", "check_pdf", "build",
               "finally", "done"}
    /\ tmpdir \in {"none", "exists", "removed"}
    /\ Len(pass_log) <= NumPasses
    /\ Len(stdout) <= 1

\* ------------------------------------------------ the Injector on its own
\* Building blocks of generated documents.
DocPieces ==
    { BeginDocument,
      TitleDecl(<<"T">>) \o NL,
      UsePackage("microtype") \o NL,
      UsePackage("hyperref") \o NL,
      UsePackage("bookmark") \o NL,
      <<"P">> \o NL,
      <<"x">> }

\* Every document made of at most MaxPieces building blocks.
PieceDocs == { Concat(q) : q \in SeqsUpTo(DocPieces, MaxPieces) }

InjectPreambles == { None, Some(<<>>), Some(<<"P">>), Some(UsePackage("microtype")) }
InjectTitles == { None, Some(<<>>), Some(<<"T">>) }

\* A generated document sits in output.tex, about to be post-processed.
InitInject ==
    /\ NoEngines
    /\ NoSlides
    /\ stdin_kind = "object"
    /\ tool_present = TRUE
    /\ source = <<>>
    /\ bibliography = None
    /\ frontmatter \in [title : InjectTitles, author : {NoAuthor}]
    /\ latex_preamble \in InjectPreambles
    /\ pc = "inject"
    /\ tmpdir = "exists"
    /\ \E doc \in PieceDocs : files = WithFile([n \in {} |-> <<>>], "output.tex", doc)
    /\ bib_path = None
    /\ extra_args = None
    /\ conversion = "rich"
    /\ warnings = <<>>
    /\ latex_source = <<>>
    /\ pdf_base64 = None
    /\ page_count = None
    /\ pass_log = <<>>
    /\ pdf_found = "unchecked"
    /\ stdout = <<>>
    /\ exc = "none"
    /\ raised_at = "none"
    /\ escaped = "none"

\* main, lines 83-115, on the document in output.tex.
InjectOnce ==
    /\ pc = "inject"
    /\ latex_source' = MetadataInject(files["output.tex"], latex_preamble, frontmatter)
    /\ pc' = "injected"
    /\ UNCHANGED <<request, concurrent, slides, tmpdir, files, bib_path, extra_args, conversion, warnings,
                   pdf_base64, page_count, pass_log, pdf_found, stdout, exc, raised_at,
                   escaped>>

\* main, lines 117-119 then 83-115 again: the injected document is written
\* back and post-processed a second time with the same inputs.
InjectAgain ==
    /\ pc = "injected"
    /\ files' = WithFile(files, "output.tex", latex_source)
    /\ latex_source' = MetadataInject(latex_source, latex_preamble, frontmatter)
    /\ pc' = "reinjected"
    /\ UNCHANGED <<request, concurrent, slides, tmpdir, bib_path, extra_args, conversion, warnings,
                   pdf_base64, page_count, pass_log, pdf_found, stdout, exc, raised_at,
                   escaped>>

NextInject == InjectOnce \/ InjectAgain

SpecInject == InitInject /\ [][NextInject]_vars

\* ------------------------------------------------------------ observations
Range(q) == { q[i] : i \in 1..Len(q) }
HasKey(doc, k) == k \in DOMAIN doc
\* A Failure object {error: {code, message}}.
IsFailure(doc) ==
    /\ DOMAIN doc = {"error"}
    /\ {"code", "message"} \subseteq DOMAIN doc.error
\* main has written its result object.
Responded == Len(stdout) = 1 /\ ~HasKey(stdout[1], "error")
\* The warnings that explain a missing artifact.
ConditionWarnings == {WarnToolMissing, WarnTimeout, WarnNotProduced}
CountIn(q, S) == Cardinality({ i \in 1..Len(q) : q[i] \in S })
\* Both passes ran to completion.
BothPassesReturned ==
    Len(pass_log) = NumPasses /\ Range(pass_log) \subseteq {"rc0", "rc1"}
\* The markup the conversion step generated, post-processed by the Injector.
IsPostInjection(doc) ==
    \E d \in (IF conversion = "rich" THEN RichDocs
              ELSE {basic_md_to_latex(source, frontmatter, latex_preamble)}) :
        doc = MetadataInject(d, latex_preamble, frontmatter)

\* ------------------------------------------------------------------ claims
\* C1: whenever main has ended, on whatever exit path, a workspace that was
\* created has been removed: no final state has a workspace that still exists.
C1_WorkspaceRemoved ==
    pc = "done" => /\ tmpdir # "exists"
                   /\ (raised_at \notin {"none", "read_stdin", "mkdtemp"}
                          => tmpdir = "removed")

\* C1 witness: main ended by an exception raised in the middle of a compiler
\* pass, and the workspace it had created is gone.
C1_Witness ==
    pc = "done" /\ raised_at = "compile" /\ escaped # "none" /\ tmpdir = "removed"

\* C2 (as claimed): when main has ended, exactly one JSON document has been
\* written to stdout and no exception has escaped main.
C2_OneDocumentNothingEscapes ==
    pc = "done" => (Len(stdout) = 1 /\ escaped = "none")

\* C3 (as claimed): when an exception occurred during workspace setup
\* (creating the directory, writing the source or the bibliography file), the
\* response is a Failure object {error: {code, message}}.
C3_SetupFailureIsFailureObject ==
    (pc = "done" /\ raised_at \in {"mkdtemp", "write_md", "write_bib"})
        => (Len(stdout) = 1 /\ IsFailure(stdout[1]))

\* C4: when the compiler binary cannot be located, no pass is carried out,
\* nothing is thrown to the caller, and the response holds the post-injection
\* markup (the document written to output.tex), neither pdf_base64 nor
\* page_count, and the tool-missing warning.
C4_ToolMissingIsPartialSuccess ==
    (pc \in {"finally", "done"} /\ ~tool_present /\ pass_log # <<>>)
        => /\ pass_log = <<"notfound">>
           /\ pdf_found = "unchecked"
           /\ exc = "none" /\ escaped = "none"
           /\ Len(stdout) = 1
           /\ DOMAIN stdout[1] = {"latex_source", "warnings", "citations"}
           /\ IsPostInjection(stdout[1].latex_source)
           /\ (pc = "finally" => stdout[1].latex_source = files["output.tex"])
           /\ WarnToolMissing \in Range(stdout[1].warnings)

\* C4 witness: main ended with the binary missing, after the fallback
\* conversion, and returned a response.
C4_Witness ==
    /\ pc = "done" /\ ~tool_present /\ pass_log = <<"notfound">>
    /\ conversion = "not_installed" /\ Len(stdout) = 1

C6_TimeoutAbortsCompilation ==
    (pc \in {"finally", "done"} /\ "timeout" \in Range(pass_log))
        => /\ pass_log[Len(pass_log)] = "timeout"
           /\ CountIn(pass_log, {"timeout"}) = 1
           /\ pdf_found = "unchecked"
           /\ exc = "none" /\ escaped = "none"
           /\ Responded
           /\ ~HasKey(stdout[1], "pdf_base64")
           /\ WarnTimeout \in Range(stdout[1].warnings)
           /\ WarnNotProduced \notin Range(stdout[1].warnings)
           /\ WarnTimeout # WarnNotProduced

\* C6 witness: pass 1 produced output.pdf, pass 2 timed out, and the response
\* has been written while the artifact is still in the workspace.
C6_Witness ==
    /\ pc = "finally" /\ pass_log = <<"rc0", "timeout">>
    /\ "output.pdf" \in DOMAIN files /\ Len(stdout) = 1

\* C7: when both passes ran to completion and a response was written, it
\* carries pdf_base64 (the encoding of output.pdf) exactly when output.pdf
\* exists in the workspace, whatever the two exit codes were.
C7_ArtifactDecidesSuccess ==
    (pc \in {"finally", "done"} /\ BothPassesReturned /\ Responded)
        => /\ (HasKey(stdout[1], "pdf_base64") <=> pdf_found = "yes")
           /\ (pc = "finally" =>
                  /\ (HasKey(stdout[1], "pdf_base64") <=> "output.pdf" \in DOMAIN files)
                  /\ (HasKey(stdout[1], "pdf_base64") =>
                         stdout[1].pdf_base64 = B64Encode(files["output.pdf"])))

\* C7 witness: two non-zero exits with the artifact present yield pdf_base64.
C7_Witness ==
    /\ pc = "finally" /\ pass_log = <<"rc1", "rc1">>
    /\ Responded /\ HasKey(stdout[1], "pdf_base64")

\* C8: a result object without pdf_base64 holds exactly one condition warning,
\* the one of the condition that occurred (tool missing, timeout, compiler ran
\* but no artifact); a result object with pdf_base64 holds none of the three.
C8_NeverSilentlyEmpty ==
    Responded =>
        LET w == stdout[1].warnings
        IN  IF HasKey(stdout[1], "pdf_base64")
            THEN CountIn(w, ConditionWarnings) = 0
            ELSE /\ CountIn(w, ConditionWarnings) = 1
                 /\ w # <<>>
                 /\ (WarnToolMissing \in Range(w) <=> pass_log = <<"notfound">>)
                 /\ (WarnToolMissing \in Range(w) => ~tool_present)
                 /\ (WarnTimeout \in Range(w) <=> "timeout" \in Range(pass_log))
                 /\ (WarnNotProduced \in Range(w)
                        <=> (BothPassesReturned /\ pdf_found = "no"))

\* C8 witness: both passes exited 0, no artifact was produced, and the
\* response says so.
C8_Witness ==
    /\ pc = "done" /\ pass_log = <<"rc0", "rc0">> /\ Responded
    /\ ~HasKey(stdout[1], "pdf_base64")
    /\ stdout[1].warnings = <<WarnNotProduced>>

\* C9 (as claimed): the Metadata Injector is idempotent: injecting into an
\* already injected document, with the same preamble and title, changes nothing.
C9_InjectorIdempotent ==
    pc = "reinjected" => latex_source = files["output.tex"]

\* C10 (as claimed): on the fallback path, where the Normalizer has already
\* emitted the custom preamble, the markup of the response contains the custom
\* preamble once.
C10_PreambleOnceOnFallback ==
    (Responded /\ conversion \in {"not_installed", "error"} /\ Truthy(latex_preamble))
        => CountOcc(latex_preamble.val, stdout[1].latex_source) = 1


\* C11: when the generated document does not contain the document-start
\* marker, the Injector returns it unchanged, whatever the custom preamble, the
\* title and the packages it lacks.
C11_NoMarkerNoChange ==
    (pc \in {"injected", "reinjected"} /\ ~Contains(BeginDocument, files["output.tex"]))
        => latex_source = files["output.tex"]

\* C11 witness: a document without the marker and without any required
\* package went through the Injector with a custom preamble and a title given.
C11_Witness ==
    /\ pc = "injected"
    /\ ~Contains(BeginDocument, files["output.tex"])
    /\ files["output.tex"] # <<>>
    /\ \A i \in 1..Len(CommonPackages) :
           ~Contains(UsePackage(CommonPackages[i]), files["output.tex"])
    /\ ~Contains(TitleOpen, files["output.tex"])
    /\ Truthy(latex_preamble) /\ Truthy(frontmatter.title)


\* The warnings of the Conversion Strategy Selector.
ConversionWarnings == {WarnPandocMissing, WarnPandocError}

\* C12 (as claimed): the Selector never raises and always yields a markup
\* document: the rich converter's output with no conversion warning, or, when
\* the converter is not installed or raises, the Normalizer's output with
\* exactly one warning whose text tells the two cases apart.
C12_SelectorAlwaysYieldsMarkup ==
    conversion # "none" =>
        /\ raised_at # "write_fallback_tex"
        /\ pc = "post_process" =>
              /\ "output.tex" \in DOMAIN files
              /\ conversion = "rich" =>
                    /\ files["output.tex"] \in RichDocs
                    /\ CountIn(warnings, ConversionWarnings) = 0
              /\ conversion = "not_installed" =>
                    /\ files["output.tex"]
                           = basic_md_to_latex(source, frontmatter, latex_preamble)
                    /\ warnings = <<WarnPandocMissing>>
              /\ conversion = "error" =>
                    /\ files["output.tex"]
                           = basic_md_to_latex(source, frontmatter, latex_preamble)
                    /\ warnings = <<WarnPandocError>>
        /\ WarnPandocMissing # WarnPandocError

\* C13: on malformed JSON the only thing main does is write the object
\* {error: {code: "json-parse-failed", message}}, with no other key: no
\* workspace is created, nothing is converted and no pass is run.
C13_MalformedJsonResponse ==
    stdin_kind = "malformed" =>
        /\ tmpdir = "none" /\ files = [n \in {} |-> <<>>]
        /\ conversion = "none" /\ extra_args = None /\ pass_log = <<>>
        /\ escaped = "none"
        /\ pc = "done" =>
              /\ Len(stdout) = 1
              /\ DOMAIN stdout[1] = {"error"}
              /\ DOMAIN stdout[1].error = {"code", "message"}
              /\ stdout[1].error.code = "json-parse-failed"

\* C13 witness: main has ended on malformed input, its error object written.
C13_Witness ==
    stdin_kind = "malformed" /\ pc = "done" /\ Len(stdout) = 1

\* C17: the result holds as many compiler-exit warnings as passes exited
\* non-zero (0, 1 or 2), a pass that exits zero adds none, and the exit code
\* of a pass does not decide whether the next pass runs.
C17_OneWarningPerFailedPass ==
    /\ CountIn(warnings, {WarnPdflatexExit}) = CountIn(pass_log, {"rc1"})
    /\ Responded =>
          CountIn(stdout[1].warnings, {WarnPdflatexExit}) = CountIn(pass_log, {"rc1"})
    /\ (pass_log # <<>> /\ pass_log[1] \in {"rc0", "rc1"}
            /\ pc \in {"check_pdf", "build", "finally", "done"})
          => Len(pass_log) = NumPasses

\* C17 witness: pass 1 exited non-zero, pass 2 exited zero, and the response
\* holds one compiler-exit warning.
C17_Witness ==
    /\ pc = "done" /\ pass_log = <<"rc1", "rc0">> /\ Responded
    /\ CountIn(stdout[1].warnings, {WarnPdflatexExit}) = 1

\* C19: whenever the rich converter is invoked, its arguments hold
\* --standalone; --bibliography <file> and --citeproc are passed together or
\* not at all, and they are passed exactly when the request has a (non-empty)
\* bibliography, whose file is then already in the workspace.
C19_ConverterArguments ==
    extra_args.some =>
        LET a == extra_args.val
        IN  /\ Contains(<<"--standalone">>, a)
            /\ Contains(<<"--citeproc">>, a)
                   <=> Contains(<<"--bibliography", "references.bib">>, a)
            /\ Contains(<<"--bibliography">>, a) <=> Contains(<<"--citeproc">>, a)
            /\ Contains(<<"--citeproc">>, a) <=> Truthy(bibliography)
            /\ (Truthy(bibliography) /\ pc \in {"post_process", "write_tex", "compile"})
                   => /\ "references.bib" \in DOMAIN files
                      /\ files["references.bib"] = bibliography.val

\* C19 witness: the rich converter ran for a request with a bibliography.
C19_Witness ==
    /\ conversion = "rich" /\ pc = "post_process" /\ Truthy(bibliography)
    /\ extra_args = Some(<<"--standalone", "--bibliography", "references.bib",
                           "--citeproc">>)


\* The generated document has the marker and none of the declarations yet.
FreshDocument(doc) ==
    /\ Contains(BeginDocument, doc)
    /\ ~Contains(TitleOpen, doc)
    /\ \A i \in 1..Len(CommonPackages) : ~Contains(UsePackage(CommonPackages[i]), doc)
    /\ Truthy(latex_preamble) => ~Contains(latex_preamble.val, doc)
\* The text the Injector is asked to insert for the preamble and the title.
PreambleText == IF Truthy(latex_preamble) THEN latex_preamble.val \o NL ELSE <<>>
TitleText ==
    IF Truthy(frontmatter.title) THEN TitleDecl(frontmatter.title.val) \o NL ELSE <<>>
RECURSIVE PackageText(_, _)
\* The declarations of the packages pkgs, in order, leaving out those that
\* occur in the text `given`.
PackageText(pkgs, given) ==
    IF pkgs = <<>> THEN <<>>
    ELSE (IF Contains(UsePackage(Head(pkgs)), given) THEN <<>>
          ELSE UsePackage(Head(pkgs)) \o NL)
         \o PackageText(Tail(pkgs), given)

\* C18 (as claimed): for a document with the marker and none of the
\* declarations, the result is the text before the first marker, then the
\* custom preamble, the title declaration, the packages microtype, hyperref,
\* bookmark, then the text from the marker onward.
C18_AllDeclarationsInOrder ==
    (pc = "injected" /\ FreshDocument(files["output.tex"])) =>
        LET doc == files["output.tex"]
            idx == Find(BeginDocument, doc)
        IN  latex_source = SliceTo(doc, idx) \o PreambleText \o TitleText
                               \o PackageText(CommonPackages, <<>>)
                               \o SliceFrom(doc, idx)

\* C18 (amended): as above, except that a title declaration or a required
\* package that the inserted custom preamble already declares is not inserted
\* after it.
C18_DeclarationsInOrderUnlessInPreamble ==
    (pc = "injected" /\ FreshDocument(files["output.tex"])) =>
        LET doc == files["output.tex"]
            idx == Find(BeginDocument, doc)
            title == IF Contains(TitleOpen, PreambleText) THEN <<>> ELSE TitleText
        IN  latex_source = SliceTo(doc, idx) \o PreambleText \o title
                               \o PackageText(CommonPackages, PreambleText \o title)
                               \o SliceFrom(doc, idx)

\* C18 witness: a fresh document with text on both sides of the marker was
\* injected with a custom preamble and a title, and all five declarations
\* were inserted.
C18_Witness ==
    /\ pc = "injected" /\ FreshDocument(files["output.tex"])
    /\ Find(BeginDocument, files["output.tex"]) > 0
    /\ Len(files["output.tex"]) > Find(BeginDocument, files["output.tex"]) + 1
    /\ latex_preamble = Some(<<"P">>) /\ Truthy(frontmatter.title)
    /\ Len(latex_source) = Len(files["output.tex"]) + Len(PreambleText)
                               + Len(TitleText) + Len(PackageText(CommonPackages, <<>>))


\* ---------------------------------------------- the Normalizer on its own
\* The characters of a markdown line that the rule table tells apart.
LineChars == {"#", " ", "-", ":", "a"}
\* Every line of at most MaxLineLen characters.
SourceLines == SeqsUpTo(LineChars, MaxLineLen)
\* Author names; the last one holds the text of the list separator.
AuthorNames == { <<"A">>, <<"B">>, <<"A">> \o AndSeparator \o <<"B">> }
NormalizeAuthors ==
    {NoAuthor, AuthorStr(<<"A">>)}
        \cup { AuthorList(l) : l \in SeqsUpTo(AuthorNames, MaxAuthors) }

\* The Normalizer is about to run: either on a source that is one line, alone
\* or between the lines "x" and "y", with empty frontmatter, or on an empty
\* source with some frontmatter and preamble.
InitNormalize ==
    /\ NoEngines
    /\ NoSlides
    /\ stdin_kind = "object"
    /\ tool_present = TRUE
    /\ bibliography = None
    /\ \/ /\ \E line \in SourceLines :
                source \in { line, <<"x", "\n">> \o line \o <<"\n", "y">> }
          /\ frontmatter = [title |-> None, author |-> NoAuthor]
          /\ latex_preamble = None
       \/ /\ source = <<>>
          /\ frontmatter \in [title : SampleTitles, author : NormalizeAuthors]
          /\ latex_preamble \in SamplePreambles
    /\ pc = "normalize"
    /\ tmpdir = "exists"
    /\ files = [n \in {} |-> <<>>]
    /\ bib_path = None
    /\ extra_args = None
    /\ conversion = "not_installed"
    /\ warnings = <<WarnPandocMissing>>
    /\ latex_source = <<>>
    /\ pdf_base64 = None
    /\ page_count = None
    /\ pass_log = <<>>
    /\ pdf_found = "unchecked"
    /\ stdout = <<>>
    /\ exc = "none"
    /\ raised_at = "none"
    /\ escaped = "none"

\* main, lines 74-76: the Normalizer's output is written to output.tex.
Normalize ==
    /\ pc = "normalize"
    /\ files' = WithFile(files, "output.tex",
                         basic_md_to_latex(source, frontmatter, latex_preamble))
    /\ pc' = "normalized"
    /\ UNCHANGED <<request, concurrent, slides, tmpdir, locals, stdout, exc, raised_at, escaped>>

NextNormalize == Normalize

SpecNormalize == InitNormalize /\ [][NextNormalize]_vars


\* ------------------------------------------ observations of the Normalizer
\* The source line under test: the whole source, or the line between the
\* context lines "x" and "y".
InContext == source # <<>> /\ source[1] = "x"
TheLine == IF InContext THEN SubSeq(source, 3, Len(source) - 2) ELSE source
ContextBefore == IF InContext THEN << <<"x">> >> ELSE <<>>
ContextAfter == IF InContext THEN << <<"y">> >> ELSE <<>>
\* The Normalizer ran on a source with empty frontmatter and no preamble.
LineNormalized ==
    /\ pc = "normalized"
    /\ frontmatter = [title |-> None, author |-> NoAuthor]
    /\ latex_preamble = None
\* The lines of the Normalizer's output, and those between \begin{document}
\* and \end{document} when there is no title, author or preamble.
OutputLines == Split(files["output.tex"], "\n")
OutputBody == SubSeq(OutputLines, 6, Len(OutputLines) - 1)
Hashes(n) == [i \in 1..n |-> "#"]
HeadingCommand(n) ==
    CASE n = 1 -> <<"\\section{">>
      [] n = 2 -> <<"\\subsection{">>
      [] n = 3 -> <<"\\subsubsection{">>
HeadingCommands == { HeadingCommand(n)[1] : n \in 1..3 }
\* l begins with exactly n '#' followed by a space.
BeginsWithHeading(l, n) ==
    /\ Len(l) >= n + 1
    /\ \A i \in 1..n : l[i] = "#"
    /\ l[n + 1] = " "
\* l consists solely of three or more '-'.
OnlyDashes(l) == Len(l) >= 3 /\ \A i \in 1..Len(l) : l[i] = "-"
\* l has a ':' and at most two words before its first ':'.
KeyValueShape(l) ==
    \E i \in 1..Len(l) :
        /\ l[i] = ":"
        /\ \A j \in 1..(i - 1) : l[j] # ":"
        /\ WordCount(SubSeq(l, 1, i - 1)) <= 2

\* C15 (as claimed): a non-blank source line that is not a level 1..3 heading,
\* does not consist solely of three or more '-' and has not the key: value
\* shape appears in the body, at its place in source order; so does a line
\* that starts with '---' and continues with other text.
C15_OtherLinesPassThrough ==
    LET l == Strip(TheLine)
    IN  (/\ LineNormalized
         /\ l # <<>>
         /\ \A n \in 1..3 : ~BeginsWithHeading(l, n)
         /\ ~OnlyDashes(l)
         /\ ~KeyValueShape(l))
            => OutputBody = ContextBefore \o <<l>> \o ContextAfter

\* C20 (as claimed): a line that begins with exactly N '#' and a space, N in
\* 1..3, becomes the heading of depth N whose title is the rest of the line; a
\* line that begins with four or more '#' yields no heading and is handled by
\* the remaining rules.
C20_HeadingTitleIsRestOfLine ==
    LineNormalized =>
        /\ \A n \in 1..3 :
              BeginsWithHeading(TheLine, n) =>
                  OutputBody = ContextBefore
                      \o << HeadingCommand(n) \o SubSeq(TheLine, n + 2, Len(TheLine))
                               \o <<"}">> >>
                      \o ContextAfter
        /\ StartsWith(TheLine, Hashes(4)) =>
              /\ OutputBody = ContextBefore
                     \o (IF KeyValueShape(Strip(TheLine)) THEN <<>>
                         ELSE <<Strip(TheLine)>>)
                     \o ContextAfter
              /\ \A t \in HeadingCommands : ~Contains(<<t>>, files["output.tex"])

\* C20 (amended): a line that begins with exactly N '#' and a space, N in
\* 1..3, followed by something other than whitespace, becomes the heading of
\* depth N whose title is the rest of the line without its trailing
\* whitespace, whatever it contains; when only whitespace follows, the line is
\* no heading and its '#' characters are passed through as body text; a line
\* that begins with four or more '#' yields no heading and is handled by the
\* remaining rules.
C20_HeadingTitleIsStrippedRest ==
    LineNormalized =>
        /\ \A n \in 1..3 :
              BeginsWithHeading(TheLine, n) =>
                  LET rest == RStrip(SubSeq(TheLine, n + 2, Len(TheLine)))
                  IN  OutputBody = ContextBefore
                          \o (IF rest = <<>> THEN << Hashes(n) >>
                              ELSE << HeadingCommand(n) \o rest \o <<"}">> >>)
                          \o ContextAfter
        /\ StartsWith(TheLine, Hashes(4)) =>
              /\ OutputBody = ContextBefore
                     \o (IF KeyValueShape(Strip(TheLine)) THEN <<>>
                         ELSE <<Strip(TheLine)>>)
                     \o ContextAfter
              /\ \A t \in HeadingCommands : ~Contains(<<t>>, files["output.tex"])

\* C20 witness: the line "# a:a" between two other lines became a section
\* titled "a:a".
C20_Witness ==
    /\ LineNormalized /\ InContext
    /\ TheLine = <<"#", " ", "a", ":", "a">>
    /\ OutputBody = << <<"x">>, <<"\\section{", "a", ":", "a", "}">>, <<"y">> >>

\* The author lines of the Normalizer's output.
AuthorBlocks == SelectSeq(OutputLines, LAMBDA l : StartsWith(l, <<"\\author{">>))
RECURSIVE Interleaved(_)
\* The names of a non-empty list with the separator between neighbours.
Interleaved(names) ==
    IF Len(names) = 1 THEN names[1]
    ELSE names[1] \o AndSeparator \o Interleaved(Tail(names))
\* The Normalizer ran with a non-empty author list.
AuthorListNormalized ==
    /\ pc = "normalized"
    /\ frontmatter.author.kind = "list"
    /\ frontmatter.author.list # <<>>
\* What the claim says of the one author block for the list `names`.
AuthorBlockAsClaimed(names) ==
    /\ Len(AuthorBlocks) = 1
    /\ AuthorBlocks[1] = <<"\\author{">> \o Interleaved(names) \o <<"}">>
    /\ CountOcc(AndSeparator, AuthorBlocks[1]) = Len(names) - 1
    /\ Len(names) = 1 =>
          /\ Contains(names[1], AuthorBlocks[1])
          /\ ~Contains(AndSeparator, AuthorBlocks[1])

\* C16 (as claimed): for every author list of length 1 the author block holds
\* that author and not the separator; for a list of length n >= 2 it holds the
\* authors in list order with the separator exactly n-1 times.
C16_SeparatorBetweenAuthors ==
    AuthorListNormalized => AuthorBlockAsClaimed(frontmatter.author.list)

\* C16 (amended): the same, for author lists none of whose names contains the
\* separator's own text "\\and".
C16_SeparatorBetweenPlainAuthors ==
    (/\ AuthorListNormalized
     /\ \A i \in 1..Len(frontmatter.author.list) :
            ~Contains(<<AndSeparator[2]>>, frontmatter.author.list[i]))
        => AuthorBlockAsClaimed(frontmatter.author.list)

\* C16 witness: the Normalizer ran with three plain authors and with one.
C16_Witness ==
    /\ AuthorListNormalized
    /\ frontmatter.author.list = << <<"A">>, <<"B">>, <<"A">> >>
    /\ CountOcc(AndSeparator, AuthorBlocks[1]) = 2


\* ------------------------------------------- engine processes side by side
\* Every request is served by its own run of main.  A workspace name stands
\* for "zen-sci-latex-{request_id}-{suffix}" in the temporary directory; a
\* file of a workspace is recorded with the engine that wrote it last.
Engines == 1..MaxEngines
Suffixes == 1..MaxSuffixes
RequestIds == {"unknown", "r1"}
DirNames(request_id) == { <<request_id, x>> : x \in Suffixes }
TryPcs == {"write_md", "write_tex", "compile", "respond"}
\* The files main has put into its workspace when it stands at `at`.
WrittenAt(at) ==
    CASE at = "write_md" -> {}
      [] at = "write_tex" -> {"input.md"}
      [] at = "compile" -> {"input.md", "output.tex"}
      [] at = "respond" -> {"input.md", "output.tex", "output.pdf"}
\* The file main writes, or has pdflatex write, at `at`, and where it goes next.
FileAt(at) ==
    CASE at = "write_md" -> "input.md"
      [] at = "write_tex" -> "output.tex"
      [] at = "compile" -> "output.pdf"
AfterPc(at) ==
    CASE at = "write_md" -> "write_tex"
      [] at = "write_tex" -> "compile"
      [] at = "compile" -> "respond"
single == <<request, slides, pc, tmpdir, files, locals, stdout, exc, raised_at, escaped>>

InitEngines ==
    /\ engines \in [Engines -> { [pc |-> "mkdtemp", request_id |-> r, tmpdir |-> None]
                                   : r \in RequestIds }]
    /\ tempdir = <<>>
    /\ NoSlides
    /\ stdin_kind = "object"
    /\ tool_present = TRUE
    /\ source = <<>>
    /\ frontmatter = [title |-> None, author |-> NoAuthor]
    /\ bibliography = None
    /\ latex_preamble = None
    /\ InitLocals

\* Mutant of EngineMkdtemp: the workspace is named by the request_id alone and
\* made with exist_ok, as os.makedirs(name, exist_ok=True) would.
EngineMkdtemp_KeyedByRequestId(e) ==
    /\ engines[e].pc = "mkdtemp"
    /\ LET name == <<engines[e].request_id, 1>>
       IN  /\ tempdir' = [n \in (DOMAIN tempdir) \cup {name} |->
                             IF n \in DOMAIN tempdir THEN tempdir[n] ELSE {}]
           /\ engines' = [engines EXCEPT ![e].pc = "write_md",
                                         ![e].tmpdir = Some(name)]
    /\ UNCHANGED single

\* main, line 42: tempfile.mkdtemp makes a directory that did not exist, under
\* a name with the given prefix; when every name it tries exists it raises
\* FileExistsError, which leaves main before the try block is entered.
EngineMkdtemp(e) ==
    /\ engines[e].pc = "mkdtemp"
    /\ LET free == DirNames(engines[e].request_id) \ DOMAIN tempdir
       IN  IF free = {}
           THEN /\ engines' = [engines EXCEPT ![e].pc = "done"]
                /\ UNCHANGED tempdir
           ELSE \E name \in free :
                  /\ tempdir' = [n \in (DOMAIN tempdir) \cup {name} |->
                                    IF n = name THEN {} ELSE tempdir[n]]
                  /\ engines' = [engines EXCEPT ![e].pc = "write_md",
                                                ![e].tmpdir = Some(name)]
    /\ UNCHANGED single

\* main, lines 50-51, 75-76 and 119, 127-133: a file is written into the
\* engine's own workspace (output.pdf by pdflatex); were the directory gone,
\* open would raise FileNotFoundError.
EngineWrite(e) ==
    /\ engines[e].pc \in TryPcs \ {"respond"}
    /\ LET d == engines[e].tmpdir.val
           f == FileAt(engines[e].pc)
       IN  IF d \in DOMAIN tempdir
           THEN /\ tempdir' = [tempdir EXCEPT ![d] =
                                  {x \in @ : x[1] # f} \cup {<<f, e>>}]
                /\ engines' = [engines EXCEPT ![e].pc = AfterPc(engines[e].pc)]
           ELSE /\ engines' = [engines EXCEPT ![e].pc = "finally"]
                /\ UNCHANGED tempdir
    /\ UNCHANGED single

\* main, lines 44-172: an exception raised anywhere in the try block.
EngineRaise(e) ==
    /\ engines[e].pc \in TryPcs
    /\ engines' = [engines EXCEPT ![e].pc = "finally"]
    /\ UNCHANGED <<single, tempdir>>

\* main, lines 157-172: the response is written.
EngineRespond(e) ==
    /\ engines[e].pc = "respond"
    /\ engines' = [engines EXCEPT ![e].pc = "finally"]
    /\ UNCHANGED <<single, tempdir>>

\* main, lines 174-175: shutil.rmtree(tmpdir, ignore_errors=True).
EngineRmtree(e) ==
    /\ engines[e].pc = "finally"
    /\ tempdir' = [n \in (DOMAIN tempdir) \ {engines[e].tmpdir.val} |-> tempdir[n]]
    /\ engines' = [engines EXCEPT ![e].pc = "done"]
    /\ UNCHANGED single

NextEngines ==
    \E e \in Engines :
        \/ EngineMkdtemp(e)
        \/ EngineWrite(e)
        \/ EngineRaise(e)
        \/ EngineRespond(e)
        \/ EngineRmtree(e)

SpecEngines == InitEngines /\ [][NextEngines]_vars

\* The engine holds a workspace: made and not yet removed by its own cleanup.
HoldsWorkspace(e) == engines[e].pc \in TryPcs \cup {"finally"}

\* C14: under any interleaving of engines, also of engines with the same
\* request_id, no two engines hold the same workspace directory, and the
\* workspace of an engine still running holds exactly the files that engine
\* wrote: no other engine's cleanup removed or altered any.
C14_WorkspacesNeverShared ==
    /\ \A e1, e2 \in Engines :
          (e1 # e2 /\ HoldsWorkspace(e1) /\ HoldsWorkspace(e2))
              => engines[e1].tmpdir # engines[e2].tmpdir
    /\ \A e \in Engines :
          engines[e].pc \in TryPcs =>
              /\ engines[e].tmpdir.val \in DOMAIN tempdir
              /\ tempdir[engines[e].tmpdir.val]
                     = { <<f, e>> : f \in WrittenAt(engines[e].pc) }

\* C14 witness: of two engines with the same request_id one has removed its
\* workspace and the other, still running, has all its files.
C14_Witness ==
    \E e1, e2 \in Engines :
        /\ e1 # e2
        /\ engines[e1].request_id = engines[e2].request_id
        /\ engines[e1].pc = "done" /\ engines[e1].tmpdir.some
        /\ engines[e2].pc = "respond"
        /\ Cardinality(tempdir[engines[e2].tmpdir.val]) = 3


\* --------------------------------------------- observations of the response
\* The page-object markers and the page-collection markers found in artifact
\* bytes: occurrences of "/Type /Page" and of "/Type /Pages".
PageMarkers(content) ==
    Cardinality({ i \in 1..Len(content) : content[i] = "/Type /Page" })
CollectionMarkers(content) ==
    Cardinality({ i \in 1..(Len(content) - 1) :
                    content[i] = "/Type /Page" /\ content[i + 1] = "s" })

\* C21 (as claimed): every response that carries pdf_base64 carries
\* page_count, equal to max(1, P - C) for the P page-object and C
\* page-collection markers of the artifact, hence at least 1; a response
\* without pdf_base64 carries no page_count.
C21_PageCountWithArtifact ==
    Responded =>
        IF HasKey(stdout[1], "pdf_base64")
        THEN /\ HasKey(stdout[1], "page_count")
             /\ LET bytes == stdout[1].pdf_base64.bytes
                    n == PageMarkers(bytes) - CollectionMarkers(bytes)
                IN  stdout[1].page_count = (IF n > 1 THEN n ELSE 1)
             /\ stdout[1].page_count >= 1
        ELSE ~HasKey(stdout[1], "page_count")


\* main stands between the writing of the post-processed document and the
\* writing of the response: the compilation steps.
Compiling == pc \in {"compile", "check_pdf", "build"}

\* C22: the latex_source of every non-error response is the post-injection
\* document that was written to output.tex and handed to the compiler; no
\* compilation step, whatever its outcome, changes latex_source or output.tex.
C22_SourceUntouchedByCompilation ==
    /\ [](/\ Compiling =>
                /\ files["output.tex"] = latex_source
                /\ IsPostInjection(latex_source)
          /\ Responded =>
                /\ stdout[1].latex_source = latex_source
                /\ IsPostInjection(stdout[1].latex_source)
                /\ pc = "finally" => files["output.tex"] = stdout[1].latex_source)
    /\ [][Compiling =>
            /\ latex_source' = latex_source
            /\ files'["output.tex"] = files["output.tex"]]_vars

\* C22 witness: a response written after a timed-out second pass carries the
\* document of output.tex, which the Injector had changed.
C22_Witness ==
    /\ pc = "finally" /\ Responded
    /\ pass_log = <<"rc1", "timeout">>
    /\ stdout[1].latex_source = files["output.tex"]
    /\ Contains(UsePackage("microtype"), stdout[1].latex_source)


\* The warnings the events so far call for, event by event: the conversion
\* fallback, the passes that exited non-zero, the condition that left the
\* response without artifact.
FallbackPart ==
    CASE conversion = "not_installed" -> <<WarnPandocMissing>>
      [] conversion = "error" -> <<WarnPandocError>>
      [] OTHER -> <<>>
RECURSIVE ExitPart(_)
ExitPart(log) ==
    IF log = <<>> THEN <<>>
    ELSE (IF Head(log) = "rc1" THEN <<WarnPdflatexExit>> ELSE <<>>) \o ExitPart(Tail(log))
ConditionPart ==
    IF "notfound" \in Range(pass_log) THEN <<WarnToolMissing>>
    ELSE IF "timeout" \in Range(pass_log) THEN <<WarnTimeout>>
    ELSE IF pdf_found = "no" THEN <<WarnNotProduced>>
    ELSE <<>>
IsPrefix(p, q) == Len(p) <= Len(q) /\ SubSeq(q, 1, Len(p)) = p

\* C23: the warnings are in the order of the events: the conversion fallback
\* warning first, then the compiler-exit warnings pass by pass, then the
\* condition warning last; the response carries the list as it is, and no step
\* removes or reorders a warning once appended.
C23_WarningsInEventOrder ==
    /\ [](/\ warnings = FallbackPart \o ExitPart(pass_log) \o ConditionPart
          /\ Responded => stdout[1].warnings = warnings)
    /\ [][IsPrefix(warnings, warnings') /\ Len(warnings') <= Len(warnings) + 1]_vars

\* C23 witness: a response with the fallback warning, the exit warning of
\* pass 1 and the timeout warning of pass 2, in this order.
C23_Witness ==
    /\ Responded
    /\ pass_log = <<"rc1", "timeout">>
    /\ stdout[1].warnings = <<WarnPandocMissing, WarnPdflatexExit, WarnTimeout>>


\* ------------------------------------- slides engine: compile_beamer_to_pdf
\* slides_engine.py, line 41: the number of compiler passes.
SlidesPasses == 2
SlidesSources == { <<"\\documentclass{beamer}">>, <<>> }
SlidesOutputDirs == { None, Some(<<>>), Some(<<"out">>) }
\* slides_engine.py, lines 64-69: the result of a successful compilation.
SlidesResult(final_path, pdf, w) ==
    [pdf_path |-> final_path, pdf_base64 |-> pdf, page_count |-> None, warnings |-> w]
\* slides_engine.py, lines 71-94: the three error results.
SlidesError(code, message, w) ==
    [error |-> [code |-> code, message |-> message], warnings |-> w]
CompilationFailed(w) ==
    SlidesError("COMPILATION_FAILED", "pdflatex did not produce output PDF", w)
PdflatexNotFound(w) ==
    SlidesError("PDFLATEX_NOT_FOUND",
                "pdflatex is not installed. Install TeX Live or MiKTeX.", w)
CompilationTimeout(w) ==
    SlidesError("COMPILATION_TIMEOUT",
                "pdflatex compilation timed out after 60 seconds", w)
WarnSlidesExit == "pdflatex warnings"

InitSlides ==
    /\ NoEngines
    /\ stdin_kind = "object"
    /\ tool_present \in BOOLEAN
    /\ source = <<>>
    /\ frontmatter = [title |-> None, author |-> NoAuthor]
    /\ bibliography = None
    /\ latex_preamble = None
    /\ output_dir \in SlidesOutputDirs
    /\ outputs = <<>>
    /\ result = None
    /\ latex_source \in SlidesSources
    /\ pc = "enter"
    /\ tmpdir = "none"
    /\ files = [n \in {} |-> <<>>]
    /\ bib_path = None
    /\ extra_args = None
    /\ conversion = "none"
    /\ warnings = <<>>
    /\ pdf_base64 = None
    /\ page_count = None
    /\ pass_log = <<>>
    /\ pdf_found = "unchecked"
    /\ stdout = <<>>
    /\ exc = "none"
    /\ raised_at = "none"
    /\ escaped = "none"

\* An exception no clause of lines 80-95 handles: it unwinds through the with
\* statement of line 35.
SlidesRaise(step, e) ==
    /\ pc' = "exit"
    /\ exc' = e
    /\ raised_at' = step

\* slides_engine.py, line 35: TemporaryDirectory makes the workspace, or raises
\* before the with block is entered.
SlidesEnter ==
    /\ pc = "enter"
    /\ \/ /\ tmpdir' = "exists"
          /\ pc' = "write_tex"
          /\ UNCHANGED <<escaped, raised_at>>
       \/ /\ pc' = "done"
          /\ escaped' = "OSError"
          /\ raised_at' = "enter"
          /\ UNCHANGED tmpdir
    /\ UNCHANGED <<request, concurrent, slides, files, locals, stdout, exc>>

\* slides_engine.py, lines 36-37: slides.tex is written, outside the try.
SlidesWriteTex ==
    /\ pc = "write_tex"
    /\ \/ /\ files' = WithFile(files, "slides.tex", latex_source)
          /\ pc' = "compile"
          /\ UNCHANGED <<exc, raised_at>>
       \/ /\ SlidesRaise("write_tex", "OSError")
          /\ UNCHANGED files
    /\ UNCHANGED <<request, concurrent, slides, tmpdir, locals, stdout, escaped>>

\* The loop of lines 41-49 has another iteration to run.
SlidesInLoop == pc = "compile" /\ Len(pass_log) < SlidesPasses

\* slides_engine.py, lines 42-47 and 80-87: the binary cannot be located.
SlidesPassNotFound ==
    /\ SlidesInLoop
    /\ ~tool_present
    /\ pass_log' = Append(pass_log, "notfound")
    /\ result' = Some(PdflatexNotFound(warnings))
    /\ pc' = "exit"
    /\ UNCHANGED <<request, concurrent, output_dir, outputs, tmpdir, files, bib_path,
                   extra_args, conversion, warnings, latex_source, pdf_base64,
                   page_count, pdf_found, stdout, exc, raised_at, escaped>>

\* slides_engine.py, lines 41-49: a pass runs to completion with exit code rc;
\* it may (re)write slides.pdf.  Only the last pass's non-zero exit is warned of.
SlidesPassReturns ==
    /\ SlidesInLoop
    /\ tool_present
    /\ \E rc \in {0, 1} :
          /\ pass_log' = Append(pass_log, IF rc = 0 THEN "rc0" ELSE "rc1")
          /\ warnings' = IF rc # 0 /\ Len(pass_log) = 1
                         THEN Append(warnings, WarnSlidesExit) ELSE warnings
    /\ \/ UNCHANGED files
       \/ \E content \in PdfContents : files' = WithFile(files, "slides.pdf", content)
    /\ pc' = IF Len(pass_log) + 1 = SlidesPasses THEN "check_pdf" ELSE "compile"
    /\ UNCHANGED <<request, concurrent, slides, tmpdir, bib_path, extra_args, conversion,
                   latex_source, pdf_base64, page_count, pdf_found, stdout, exc,
                   raised_at, escaped>>

\* Mutant of SlidesPassTimeout: the timeout is reported under the code of a
\* failed compilation.
SlidesPassTimeout_AsFailed ==
    /\ SlidesInLoop
    /\ tool_present
    /\ pass_log' = Append(pass_log, "timeout")
    /\ result' = Some(CompilationFailed(warnings))
    /\ pc' = "exit"
    /\ UNCHANGED <<request, concurrent, output_dir, outputs, tmpdir, files, bib_path,
                   extra_args, conversion, warnings, latex_source, pdf_base64,
                   page_count, pdf_found, stdout, exc, raised_at, escaped>>

\* slides_engine.py, lines 42-47 and 88-95: a pass exceeds its 60 seconds.
SlidesPassTimeout ==
    /\ SlidesInLoop
    /\ tool_present
    /\ pass_log' = Append(pass_log, "timeout")
    /\ result' = Some(CompilationTimeout(warnings))
    /\ pc' = "exit"
    /\ UNCHANGED <<request, concurrent, output_dir, outputs, tmpdir, files, bib_path,
                   extra_args, conversion, warnings, latex_source, pdf_base64,
                   page_count, pdf_found, stdout, exc, raised_at, escaped>>

\* slides_engine.py, lines 42-47: subprocess.run raises something else
\* (PermissionError, say), which no clause handles.
SlidesPassRaises ==
    /\ SlidesInLoop
    /\ pass_log' = Append(pass_log, "raised")
    /\ SlidesRaise("compile", "OSError")
    /\ UNCHANGED <<request, concurrent, slides, tmpdir, files, bib_path, extra_args,
                   conversion, warnings, latex_source, pdf_base64, page_count,
                   pdf_found, stdout, escaped>>

\* slides_engine.py, lines 51-78: after the loop, look for slides.pdf; when it
\* exists, encode it, copy it to output_dir if one is given, and return the
\* result; otherwise return COMPILATION_FAILED.  Reading the file or writing
\* the copy may raise an OSError no clause handles.
SlidesCheckPdf ==
    /\ pc = "check_pdf"
    /\ IF "slides.pdf" \in DOMAIN files
       THEN /\ pdf_found' = "yes"
            /\ \/ /\ pdf_base64' = Some(B64Encode(files["slides.pdf"]))
                  /\ IF Truthy(output_dir)
                     THEN /\ outputs' = WithFile(outputs, "slides.pdf", files["slides.pdf"])
                          /\ result' = Some(SlidesResult(
                                 Some(output_dir.val \o <<"/", "slides.pdf">>),
                                 B64Encode(files["slides.pdf"]), warnings))
                     ELSE /\ result' = Some(SlidesResult(
                                 None, B64Encode(files["slides.pdf"]), warnings))
                          /\ UNCHANGED outputs
                  /\ pc' = "exit"
                  /\ UNCHANGED <<exc, raised_at>>
               \/ /\ SlidesRaise("read_pdf", "OSError")
                  /\ UNCHANGED <<pdf_base64, outputs, result>>
               \/ /\ Truthy(output_dir)
                  /\ pdf_base64' = Some(B64Encode(files["slides.pdf"]))
                  /\ SlidesRaise("copy_pdf", "OSError")
                  /\ UNCHANGED <<outputs, result>>
       ELSE /\ pdf_found' = "no"
            /\ result' = Some(CompilationFailed(warnings))
            /\ pc' = "exit"
            /\ UNCHANGED <<pdf_base64, outputs, exc, raised_at>>
    /\ UNCHANGED <<request, concurrent, output_dir, tmpdir, files, bib_path, extra_args,
                   conversion, warnings, latex_source, page_count, pass_log, stdout,
                   escaped>>

\* slides_engine.py, line 35: leaving the with block, by return or by
\* exception, removes the workspace; then the value is returned or the
\* exception leaves the function.
SlidesExit ==
    /\ pc = "exit"
    /\ tmpdir' = "removed"
    /\ files' = [n \in {} |-> <<>>]
    /\ escaped' = exc
    /\ pc' = "done"
    /\ UNCHANGED <<request, concurrent, slides, locals, stdout, exc, raised_at>>

NextSlides ==
    \/ SlidesEnter
    \/ SlidesWriteTex
    \/ SlidesPassNotFound
    \/ SlidesPassReturns
    \/ SlidesPassTimeout
    \/ SlidesPassRaises
    \/ SlidesCheckPdf
    \/ SlidesExit

SpecSlides == InitSlides /\ [][NextSlides]_vars


\* ---------------------------------------- observations of the slides engine
\* compile_beamer_to_pdf has returned a value (rather than raised).
SlidesReturned == pc = "done" /\ result.some /\ escaped = "none"
IsSlidesArtifact(doc) ==
    /\ DOMAIN doc = {"pdf_path", "pdf_base64", "page_count", "warnings"}
    /\ doc.pdf_base64.encoding = "base64"
IsSlidesError(doc, code) ==
    /\ DOMAIN doc = {"error", "warnings"}
    /\ doc.error.code = code
SlidesCodes == {"COMPILATION_FAILED", "PDFLATEX_NOT_FOUND", "COMPILATION_TIMEOUT"}
BothSlidesPassesReturned ==
    Len(pass_log) = SlidesPasses /\ Range(pass_log) \subseteq {"rc0", "rc1"}

====
